---- MODULE Spec2Model ----
(***************************************************************************)
(* A model of the Binder class of src/bookbind/bookbind.py: the manifest   *)
(* loader, the OPF/NCX builders, the chapter resolver and make_book.       *)
(* Python strings that the code takes apart (file names, ISBNs, dates,     *)
(* author names) are sequences of one-character strings; dictionaries are  *)
(* functions whose DOMAIN is the set of keys present.                      *)
(***************************************************************************)
EXTENDS Integers, Sequences, FiniteSets, TLC

(***************************************************************************)
(* Bounds                                                                  *)
(***************************************************************************)
MaxBook == 2

(***************************************************************************)
(* str methods                                                             *)
(***************************************************************************)
UpperChars == <<"A", "B", "C", "D", "F", "J", "M", "P", "S", "T", "X">>
LowerChars == <<"a", "b", "c", "d", "f", "j", "m", "p", "s", "t", "x">>

\* str.lower on one character
LowerChar(c) ==
    IF \E i \in 1..Len(UpperChars) : UpperChars[i] = c
    THEN LowerChars[CHOOSE i \in 1..Len(UpperChars) : UpperChars[i] = c]
    ELSE c

\* str.lower
Lower(s) == [i \in 1..Len(s) |-> LowerChar(s[i])]

IsSpace(c) == c = " "

\* str.lstrip
LStrip(s) ==
    IF \A i \in 1..Len(s) : IsSpace(s[i]) THEN <<>>
    ELSE SubSeq(s, CHOOSE i \in 1..Len(s) :
                       /\ ~IsSpace(s[i])
                       /\ \A j \in 1..(i - 1) : IsSpace(s[j]), Len(s))

\* str.rstrip
RStrip(s) ==
    IF \A i \in 1..Len(s) : IsSpace(s[i]) THEN <<>>
    ELSE SubSeq(s, 1, CHOOSE i \in 1..Len(s) :
                          /\ ~IsSpace(s[i])
                          /\ \A j \in (i + 1)..Len(s) : IsSpace(s[j]))

\* str.strip
Strip(s) == LStrip(RStrip(s))

\* str.translate(None, deletechars)
Translate(s, deletechars) == SelectSeq(s, LAMBDA c : c \notin deletechars)

\* str.startswith
StartsWith(s, p) == Len(s) >= Len(p) /\ SubSeq(s, 1, Len(p)) = p

\* index of the last occurrence of c in s, 0 when there is none (rfind + 1)
RFind(s, c) ==
    IF \E i \in 1..Len(s) : s[i] = c
    THEN CHOOSE i \in 1..Len(s) :
             s[i] = c /\ \A j \in (i + 1)..Len(s) : s[j] # c
    ELSE 0

\* index of the first occurrence of c in s, 0 when there is none
Find(s, c) ==
    IF \E i \in 1..Len(s) : s[i] = c
    THEN CHOOSE i \in 1..Len(s) :
             s[i] = c /\ \A j \in 1..(i - 1) : s[j] # c
    ELSE 0

\* os.path.splitext: <<root, ext>>; the extension starts at the last dot of
\* the last path component, unless only dots precede it in that component
SplitExt(p) ==
    LET sepIndex == RFind(p, "/")
        dotIndex == RFind(p, ".")
    IN  IF /\ dotIndex > sepIndex
           /\ \E k \in (sepIndex + 1)..(dotIndex - 1) : p[k] # "."
        THEN <<SubSeq(p, 1, dotIndex - 1), SubSeq(p, dotIndex, Len(p))>>
        ELSE <<p, <<>>>>

\* make_id(fullname)
make_id(fullname) == Strip(Lower(SplitExt(fullname)[1]))

(***************************************************************************)
(* datetime.strptime / strftime as generate_metadata uses them             *)
(***************************************************************************)
\* calendar.month_name[1..12], lower-cased (strptime matches with IGNORECASE)
MonthNames ==
    << <<"j", "a", "n", "u", "a", "r", "y">>,
       <<"f", "e", "b", "r", "u", "a", "r", "y">>,
       <<"m", "a", "r", "c", "h">>,
       <<"a", "p", "r", "i", "l">>,
       <<"m", "a", "y">>,
       <<"j", "u", "n", "e">>,
       <<"j", "u", "l", "y">>,
       <<"a", "u", "g", "u", "s", "t">>,
       <<"s", "e", "p", "t", "e", "m", "b", "e", "r">>,
       <<"o", "c", "t", "o", "b", "e", "r">>,
       <<"n", "o", "v", "e", "m", "b", "e", "r">>,
       <<"d", "e", "c", "e", "m", "b", "e", "r">> >>

\* calendar.month_abbr[k]
MonthAbbr(k) == SubSeq(MonthNames[k], 1, 3)

Digits == <<"0", "1", "2", "3", "4", "5", "6", "7", "8", "9">>

IsDigit(c) == \E i \in 1..10 : Digits[i] = c

DigitVal(c) == (CHOOSE i \in 1..10 : Digits[i] = c) - 1

\* '%02d' % n for n < 100
TwoDigits(n) == <<Digits[(n \div 10) + 1], Digits[(n % 10) + 1]>>

\* Binder.date_formats, each format split into its directives and literals
date_formats ==
    << <<"%B", " ", "%Y">>,
       <<"%b", " ", "%Y">>,
       <<"%B", ",", " ", "%Y">>,
       <<"%b", ",", " ", "%Y">>,
       <<"%Y", "-", "%b">>,
       <<"%Y", "-", "%m">> >>

\* s[pos..] starts with p
HasAt(s, pos, p) ==
    /\ pos + Len(p) - 1 <= Len(s)
    /\ SubSeq(s, pos, pos + Len(p) - 1) = p

\* One directive or literal of a format matched against data at st.pos, as the
\* regular expression strptime builds from it would; st.ok turns FALSE when
\* it does not match.
StrpStep(tok, data, st) ==
    LET low == Lower(data)
        pos == st.pos
        no  == [st EXCEPT !.ok = FALSE]
    IN  IF ~st.ok THEN st
        ELSE IF tok = "%B" THEN
            IF \E k \in 1..12 : HasAt(low, pos, MonthNames[k])
            THEN LET k == CHOOSE k \in 1..12 : HasAt(low, pos, MonthNames[k])
                 IN  [st EXCEPT !.pos = pos + Len(MonthNames[k]), !.month = k]
            ELSE no
        ELSE IF tok = "%b" THEN
            IF \E k \in 1..12 : HasAt(low, pos, MonthAbbr(k))
            THEN LET k == CHOOSE k \in 1..12 : HasAt(low, pos, MonthAbbr(k))
                 IN  [st EXCEPT !.pos = pos + 3, !.month = k]
            ELSE no
        ELSE IF tok = "%Y" THEN
            IF pos + 3 <= Len(data) /\ \A j \in pos..(pos + 3) : IsDigit(data[j])
            THEN [st EXCEPT !.pos = pos + 4,
                            !.year = SubSeq(data, pos, pos + 3)]
            ELSE no
        ELSE IF tok = "%m" THEN
            \* (1[0-2]|0[1-9]|[1-9])
            IF /\ pos + 1 <= Len(data)
               /\ data[pos] = "1"
               /\ data[pos + 1] \in {"0", "1", "2"}
            THEN [st EXCEPT !.pos = pos + 2,
                            !.month = 10 + DigitVal(data[pos + 1])]
            ELSE IF /\ pos + 1 <= Len(data)
                    /\ data[pos] = "0"
                    /\ IsDigit(data[pos + 1])
                    /\ data[pos + 1] # "0"
            THEN [st EXCEPT !.pos = pos + 2,
                            !.month = DigitVal(data[pos + 1])]
            ELSE IF pos <= Len(data) /\ IsDigit(data[pos]) /\ data[pos] # "0"
            THEN [st EXCEPT !.pos = pos + 1, !.month = DigitVal(data[pos])]
            ELSE no
        ELSE IF tok = " " THEN
            \* \s+
            IF pos <= Len(data) /\ IsSpace(data[pos])
            THEN LET rest == SubSeq(data, pos, Len(data))
                 IN  [st EXCEPT !.pos = pos + (Len(rest) - Len(LStrip(rest)))]
            ELSE no
        ELSE
            IF pos <= Len(data) /\ low[pos] = tok
            THEN [st EXCEPT !.pos = pos + 1]
            ELSE no

RECURSIVE StrpFold(_, _, _, _)
StrpFold(fmt, i, data, st) ==
    IF i > Len(fmt) THEN st
    ELSE StrpFold(fmt, i + 1, data, StrpStep(fmt[i], data, st))

\* the match must reach the end of the data: otherwise strptime raises
\* ValueError('unconverted data remains')
StrpEnd(st, value) == [st EXCEPT !.ok = st.ok /\ st.pos = Len(value) + 1]

\* datetime.strptime(value, fmt): ok is FALSE where Python raises ValueError
strptime(value, fmt) ==
    StrpEnd(StrpFold(fmt, 1, value,
                     [ok |-> TRUE, pos |-> 1, year |-> <<>>, month |-> 1]),
            value)

\* stamp.strftime('%Y-%m')
strftime(stamp) == stamp.year \o <<"-">> \o TwoDigits(stamp.month)

\* the for/try/break loop of generate_metadata over date_formats:
\* <<>> stands for new_val = None after the loop
RECURSIVE ParseDate(_, _)
ParseDateTry(stamp, value, i) ==
    IF stamp.ok THEN strftime(stamp) ELSE ParseDate(value, i + 1)

ParseDate(value, i) ==
    IF i > Len(date_formats) THEN <<>>
    ELSE ParseDateTry(strptime(value, date_formats[i]), value, i)

(***************************************************************************)
(* BinderError and the other exceptions an operation can end with          *)
(***************************************************************************)
NO_FILE == 100
NOT_A_DIR == 101
NO_MANIFEST == 102
NO_SOURCE_SET == 103
NO_MANIFEST_SET == 104
WEIRD_FILE == 105

\* an operation's outcome: kind "none" is a normal return, "BinderError"
\* carries one of the codes above, every other kind is the Python exception
\* that propagates (code 0: it has none)
NoErr == [kind |-> "none", code |-> 0]
BinderError(code) == [kind |-> "BinderError", code |-> code]
PyErr(kind) == [kind |-> kind, code |-> 0]

(***************************************************************************)
(* Dictionaries: a function whose DOMAIN is the set of keys present.       *)
(* The metadata mapping is a sequence of <<key, value>> pairs, in the      *)
(* order metadata.items() returns them.                                    *)
(***************************************************************************)
None == [None |-> TRUE]

has_key(d, k) == k \in DOMAIN d

Get(d, k, default) == IF k \in DOMAIN d THEN d[k] ELSE default

\* d[k] = v
SetKey(d, k, v) == [x \in DOMAIN d \cup {k} |-> IF x = k THEN v ELSE d[x]]

md_has_key(md, k) == \E i \in 1..Len(md) : md[i][1] = k

\* Binder.images, Binder.styles, Binder.other
images == <<"i", "m", "a", "g", "e", "s">>
styles == <<"s", "t", "y", "l", "e", "s">>
other == <<"a", "s", "s", "e", "t", "s">>

\* Binder.mime_map.get(ext, 'application/octet-stream')
mime_map ==
    << <<<<".", "j", "s">>, "application/javascript">>,
       <<<<".", "m", "p", "3">>, "audio/mpeg">>,
       <<<<".", "o", "g", "g">>, "audio/ogg">>,
       <<<<".", "g", "i", "f">>, "image/gif">>,
       <<<<".", "j", "p", "g">>, "image/jpeg">>,
       <<<<".", "j", "p", "e", "g">>, "image/jpeg">>,
       <<<<".", "p", "n", "g">>, "image/png">>,
       <<<<".", "s", "v", "g">>, "image/svg+xml">>,
       <<<<".", "h", "t", "m", "l">>, "application/xhtml+xml">>,
       <<<<".", "t", "x", "t">>, "text/plain">>,
       <<<<".", "x", "m", "l">>, "text/xml">>,
       <<<<".", "c", "s", "s">>, "text/css">>,
       <<<<".", "x", "h", "t", "m", "l">>, "application/xhtml+xml">>,
       <<<<".", "o", "t", "f">>, "application/x-font-otf">>,
       <<<<".", "t", "t", "f">>, "application/x-font-ttf">>,
       <<<<".", "m", "p", "4">>, "audio/mp4">>,
       <<<<".", "m", "4", "v">>, "video/mpeg4">>,
       <<<<".", "q", "t">>, "video/quicktime">>,
       <<<<".", "w", "e", "b", "m">>, "video/webm">> >>

MimeType(ext) ==
    IF \E i \in 1..Len(mime_map) : mime_map[i][1] = ext
    THEN mime_map[CHOOSE i \in 1..Len(mime_map) : mime_map[i][1] = ext][2]
    ELSE "application/octet-stream"

\* Binder.remap_values
remap_values ==
    [author |-> <<"creator", "aut">>,
     editor |-> <<"contributor", "edt">>,
     designer |-> <<"contributor", "bkd">>]
    @@ ("publisher-person" :> <<"contributor", "pbl">>)


(***************************************************************************)
(* The result of one Binder call: the exception it ends with (NoErr for a  *)
(* normal return), the value returned, the config and manifest as the call *)
(* leaves them, and the templates it rendered.                             *)
(***************************************************************************)
Result(err, value, config, manifest, rendered) ==
    [err |-> err, value |-> value, config |-> config, manifest |-> manifest,
     rendered |-> rendered]

NoValue == <<>>

\* manifest_required: the wrapper's test
ManifestMissing(manifest) == manifest = None

\* Binder.templatize(template, context): env is FALSE while Binder.env is
\* None; disk.templates is the set of templates the template directory holds
templatize(template, context, env, disk) ==
    IF ~env THEN [err |-> PyErr("AttributeError"), value |-> NoValue]
    ELSE IF template \notin disk.templates
    THEN [err |-> PyErr("TemplateNotFound"), value |-> NoValue]
    ELSE [err |-> NoErr,
          value |-> [template |-> template, context |-> context]]

\* str.split(sep) for a one-character separator
RECURSIVE Split(_, _)
Split(s, sep) ==
    LET i == Find(s, sep)
    IN  IF i = 0 THEN <<s>>
        ELSE <<SubSeq(s, 1, i - 1)>> \o Split(SubSeq(s, i + 1, Len(s)), sep)

\* the lambda flip of dublin_remap: "Last, First" to "First Last"
flip(x) ==
    LET parts == Split(x \o <<",">>, ",")
    IN  Strip(RStrip(parts[2]) \o <<" ">> \o LStrip(parts[1]))

\* Binder.dublin_remap(attr, elem, value): <<attr, elem, value>>
dublin_remap(attr, elem, value) ==
    IF has_key(remap_values, elem)
    THEN LET dc_element == remap_values[elem]
         IN  << attr \o << <<"opf:file-as", value>>,
                           <<"opf:role", dc_element[2]>> >>,
                dc_element[1],
                flip(value) >>
    ELSE <<attr, elem, value>>

\* str.upper on the element names that reach it in generate_metadata
upper(elem) ==
    CASE elem = "identifier" -> "IDENTIFIER"
      [] elem = "isbn" -> "ISBN"
      [] elem = "uuid" -> "UUID"
      [] OTHER -> elem

\* '<dc:' + elem + attrs + '>' + value + '</dc:' + elem + '>', kept as its parts
DcItem(elem, attr, value) ==
    [element |-> elem, attributes |-> attr, value |-> value]

\* the items with one more record
Emit(acc, config, elem, attr, value) ==
    [items |-> Append(acc.items, DcItem(elem, attr, value)),
     config |-> config, err |-> NoErr]

\* the date branch: new_val is None (<<>>) when no format parsed the value
EmitDate(acc, config, elem, attr, new_val) ==
    IF new_val = <<>>
    THEN [items |-> acc.items, config |-> config, err |-> PyErr("ValueError")]
    ELSE Emit(acc, config, elem, attr, new_val)

\* the identifier branch, entered with elem already set to 'identifier'
EmitIdentifier(acc, config, elem, attr, value) ==
    LET attr2 == attr \o << <<"id", "bookid">>,
                            <<"opf:scheme", upper(elem)>> >>
        value2 == IF elem = "isbn"
                  THEN <<"u", "r", "n", ":", "i", "s", "b", "n", ":">> \o Translate(value, {"-", " "})
                  ELSE value
    IN  Emit(acc, SetKey(config, "uid", value2), elem, attr2, value2)

\* the body of the for loop of generate_metadata after dublin_remap, whose
\* result is remapped = <<attr, elem, value>>
MetadataBranch(acc, config, remapped) ==
    IF remapped[2] = "uuid" \/ remapped[2] = "isbn"
    THEN EmitIdentifier(acc, config, "identifier", remapped[1], remapped[3])
    ELSE IF remapped[2] = "date"
    THEN EmitDate(acc, config, remapped[2], remapped[1],
                  ParseDate(remapped[3], 1))
    ELSE Emit(acc, config, remapped[2], remapped[1], remapped[3])

\* the body of the for loop of generate_metadata for one (elem, value) pair;
\* acc carries items, config and the exception raised so far
MetadataStep(acc, elem, value) ==
    IF acc.err # NoErr THEN acc
    ELSE MetadataBranch(acc,
                        IF elem = "author" \/ elem = "title"
                        THEN SetKey(acc.config, elem, value)
                        ELSE acc.config,
                        dublin_remap(<<>>, elem, value))

RECURSIVE MetadataLoop(_, _, _)
MetadataLoop(acc, md, i) ==
    IF i > Len(md) THEN acc
    ELSE MetadataLoop(MetadataStep(acc, md[i][1], md[i][2]), md, i + 1)

\* metadata with the defaults generate_metadata injects; new_uuid is
\* uuid.uuid4().urn
WithDefaults(md, new_uuid) ==
    LET md1 == IF ~md_has_key(md, "uuid") /\ ~md_has_key(md, "isbn")
               THEN Append(md, <<"uuid", new_uuid>>)
               ELSE md
    IN  IF ~md_has_key(md1, "language")
        THEN Append(md1, <<"language", <<"e", "n">>>>)
        ELSE md1

\* the cover hint record: '<meta name="cover" content="' + img_id + '"/>'
CoverHint(cover) ==
    [element |-> "meta",
     attributes |-> << <<"name", "cover">>,
                       <<"content", images \o <<"_">> \o SplitExt(cover)[1]>> >>,
     value |-> <<>>]

\* the end of generate_metadata: the cover hint and the return, or the
\* exception the loop raised
MetadataReturn(acc, manifest) ==
    IF acc.err # NoErr
    THEN Result(acc.err, NoValue, acc.config, manifest, <<>>)
    ELSE Result(NoErr,
                IF has_key(manifest, "cover")
                THEN Append(acc.items, CoverHint(manifest.cover))
                ELSE acc.items,
                acc.config, manifest, <<>>)

\* generate_metadata on a manifest that has the defaults in its metadata
MetadataOf(manifest, config) ==
    MetadataReturn(MetadataLoop([items |-> <<>>, config |-> config,
                                 err |-> NoErr],
                                manifest.metadata, 1),
                   manifest)

\* Binder.generate_metadata
generate_metadata(manifest, config, new_uuid) ==
    IF ManifestMissing(manifest)
    THEN Result(BinderError(NO_MANIFEST_SET), NoValue, config, manifest, <<>>)
    ELSE MetadataOf([manifest EXCEPT
                        !.metadata = WithDefaults(manifest.metadata, new_uuid)],
                    config)

(***************************************************************************)
(* The source tree and the libraries on disk, as one record:               *)
(*   source     what the source_dir path is: "missing", "file" or "dir"    *)
(*   yaml       manifest.yaml: "absent", "malformed" or "ok"               *)
(*   content    what yaml.load returns for it when it is "ok"              *)
(*   files      the chapter files that can be opened                       *)
(*   dirs       for images, styles and assets: whether os.access grants    *)
(*              R_OK, and what os.listdir returns                          *)
(*   templates  the templates in config['templates']                       *)
(*   static     whether config['static'] holds container.xml               *)
(*   style_lib  the stylesheets in config['styles']                        *)
(*   proc_ok    whether an external processor exits with status 0          *)
(*   writable   whether the archive file can be created                    *)
(***************************************************************************)
AssetDirs == <<images, styles, other>>

\* os.access(self.source_dir + '/' + self.styles + '/' + stylesheet, os.R_OK)
StylesheetInSource(disk, stylesheet) ==
    /\ disk.dirs[2].readable
    /\ \E i \in 1..Len(disk.dirs[2].files) : disk.dirs[2].files[i] = stylesheet

DefaultStylesheet == <<"d", "e", "f", "a", "u", "l", "t", ".", "c", "s", "s">>

ManifestItem(id, href, media_type) ==
    [id |-> id, href |-> href, media_type |-> media_type]

\* the items add_assets makes of one directory listing
DirItems(dir_name, files) ==
    [i \in 1..Len(files) |->
        LET name == SplitExt(files[i])[1]
            ext == SplitExt(files[i])[2]
        IN  ManifestItem(Strip(Lower(dir_name \o <<"_">> \o name)),
                         dir_name \o <<"/">> \o files[i],
                         MimeType(ext))]

RECURSIVE AssetLoop(_, _, _)
AssetLoop(items, disk, d) ==
    IF d > Len(AssetDirs) THEN items
    ELSE AssetLoop(IF disk.dirs[d].readable
                   THEN items \o DirItems(AssetDirs[d], disk.dirs[d].files)
                   ELSE items,
                   disk, d + 1)

\* Binder.add_assets(items)
add_assets(items, manifest, disk) ==
    LET stylesheet == Get(manifest, "stylesheet", DefaultStylesheet)
        items1 ==
            IF ~StylesheetInSource(disk, stylesheet)
            THEN Append(items,
                     ManifestItem(
                         Strip(Lower(styles \o <<"_">> \o SplitExt(stylesheet)[1])),
                         styles \o <<"/">> \o stylesheet,
                         "text/css"))
            ELSE items
    IN  AssetLoop(items1, disk, 1)

\* the manifest item of one chapter
ChapterItem(chapter) ==
    LET chapter_id == make_id(chapter.file)
    IN  ManifestItem(chapter_id, chapter_id \o <<".", "x", "h", "t", "m", "l">>,
                     "application/xhtml+xml")

\* a manifest-item list that leaves the cover wrapper out
CoverItems_none(manifest) == <<>>

\* generate_manifest_items: the item of the cover wrapper, if a cover is declared
CoverItems(manifest) ==
    IF has_key(manifest, "cover")
    THEN <<ManifestItem(<<"c", "o", "v", "e", "r">>, <<"c", "o", "v", "e", "r", ".", "x", "h", "t", "m", "l">>, "application/xhtml+xml")>>
    ELSE <<>>

\* Binder.generate_manifest_items
generate_manifest_items(manifest, config, disk) ==
    IF ManifestMissing(manifest)
    THEN Result(BinderError(NO_MANIFEST_SET), NoValue, config, manifest, <<>>)
    ELSE Result(NoErr,
                add_assets(<<ManifestItem(<<"n", "c", "x">>, <<"t", "o", "c", ".", "n", "c", "x">>,
                                          "application/x-dtbncx+xml")>>
                           \o CoverItems(manifest)
                           \o [i \in 1..Len(manifest.book) |->
                                  ChapterItem(manifest.book[i])],
                           manifest, disk),
                config, manifest, <<>>)

\* a test that looks at the title alone
InNavmap_titled(chapter) == has_key(chapter, "title")

\* the test of generate_navmap on one chapter
InNavmap(chapter) ==
    /\ has_key(chapter, "title")
    /\ (~has_key(chapter, "linear") \/ chapter.linear # FALSE)

\* '<itemref idref="' + chapter_id + '"/>'
SpineItem(idref) == [idref |-> idref]

\* a spine that leaves out the chapters with linear false
SpineChapters_linear(book) ==
    [i \in 1..Len(SelectSeq(book, LAMBDA c : Get(c, "linear", TRUE) # FALSE)) |->
        SpineItem(make_id(
            SelectSeq(book, LAMBDA c : Get(c, "linear", TRUE) # FALSE)[i].file))]

\* the for loop of generate_spine_items
SpineChapters(book) ==
    [i \in 1..Len(book) |-> SpineItem(make_id(book[i].file))]

\* Binder.generate_spine_items
generate_spine_items(manifest, config) ==
    IF ManifestMissing(manifest)
    THEN Result(BinderError(NO_MANIFEST_SET), NoValue, config, manifest, <<>>)
    ELSE Result(NoErr,
                (IF has_key(manifest, "cover")
                 THEN <<SpineItem(<<"c", "o", "v", "e", "r">>)>>
                 ELSE <<>>) \o SpineChapters(manifest.book),
                config, manifest, <<>>)

NavEntry(chapter) ==
    LET chapter_id == make_id(chapter.file)
    IN  [file |-> chapter_id \o <<".", "x", "h", "t", "m", "l">>,
         title |-> chapter.title,
         id |-> chapter_id]

RECURSIVE NavLoop(_, _)
NavLoop(book, i) ==
    IF i > Len(book) THEN <<>>
    ELSE (IF InNavmap(book[i]) THEN <<NavEntry(book[i])>> ELSE <<>>)
         \o NavLoop(book, i + 1)

\* Binder.generate_navmap
generate_navmap(manifest, config) ==
    IF ManifestMissing(manifest)
    THEN Result(BinderError(NO_MANIFEST_SET), NoValue, config, manifest, <<>>)
    ELSE Result(NoErr, NavLoop(manifest.book, 1), config, manifest, <<>>)

\* what a method returns that ends with 'return self.templatize(...)': t is
\* the outcome of templatize
Rendered(t, config, manifest) ==
    Result(t.err, t.value, config, manifest,
           IF t.err = NoErr THEN <<t.value.template>> ELSE <<>>)

\* Binder.generate_toc
generate_toc(manifest, config, env, disk) ==
    IF ManifestMissing(manifest)
    THEN Result(BinderError(NO_MANIFEST_SET), NoValue, config, manifest, <<>>)
    ELSE IF ~has_key(config, "title") \/ ~has_key(config, "author")
            \/ ~has_key(config, "uid")
    THEN Result(PyErr("KeyError"), NoValue, config, manifest, <<>>)
    ELSE Rendered(templatize("toc.ncx",
                      [title |-> config.title,
                       author |-> config.author,
                       uid |-> config.uid,
                       navmap |-> generate_navmap(manifest, config).value],
                      env, disk),
                  config, manifest)

\* generate_opf once generate_metadata has returned m
OpfOf(m, env, disk) ==
    IF m.err # NoErr THEN m
    ELSE Rendered(templatize("content.opf",
                      [metadata |-> m.value,
                       manifest |-> generate_manifest_items(m.manifest,
                                        m.config, disk).value,
                       spine |-> generate_spine_items(m.manifest,
                                                      m.config).value,
                       cover |-> Get(m.manifest, "cover", <<>>)],
                      env, disk),
                  m.config, m.manifest)

\* Binder.generate_opf
generate_opf(manifest, config, env, disk, new_uuid) ==
    IF ManifestMissing(manifest)
    THEN Result(BinderError(NO_MANIFEST_SET), NoValue, config, manifest, <<>>)
    ELSE OpfOf(generate_metadata(manifest, config, new_uuid), env, disk)

\* Binder.generate_cover
generate_cover(manifest, config, env, disk) ==
    IF ManifestMissing(manifest)
    THEN Result(BinderError(NO_MANIFEST_SET), NoValue, config, manifest, <<>>)
    ELSE IF ~has_key(manifest, "cover") \/ ~has_key(config, "title")
    THEN Result(PyErr("KeyError"), NoValue, config, manifest, <<>>)
    ELSE Rendered(templatize("cover.xhtml",
                      [image |-> images \o <<"/">> \o manifest.cover,
                       title |-> config.title],
                      env, disk),
                  config, manifest)

\* the chapter template is rendered with this context
ChapterContext(html, stylesheet, chapter) ==
    [content |-> html,
     stylesheet |-> stylesheet,
     title |-> Get(chapter, "title", "None")]

\* the extension as written, case kept
ChapterExt_asis(chapter) == SplitExt(chapter.file)[2]

\* generate_chapter: file_ext, the lower-cased extension of chapter['file']
ChapterExt(chapter) == Lower(SplitExt(chapter.file)[2])

\* Binder.generate_chapter(chapter)
generate_chapter(chapter, manifest, config, env, disk) ==
    IF ManifestMissing(manifest)
    THEN Result(BinderError(NO_MANIFEST_SET), NoValue, config, manifest, <<>>)
    ELSE
    LET file_ext == ChapterExt(chapter)
        stylesheet == styles \o <<"/">> \o
                      Get(chapter, "stylesheet",
                          Get(manifest, "stylesheet", DefaultStylesheet))
        processors == Get(config, "processors", <<>>)
        Templated(html) ==
            Rendered(templatize("chapter.xhtml",
                                ChapterContext(html, stylesheet, chapter),
                                env, disk),
                     config, manifest)
    IN  IF has_key(processors, file_ext) THEN
            \* subprocess.check_output(command.split()); sys.exit(1) when it fails
            IF ~disk.proc_ok
            THEN Result(PyErr("SystemExit"), NoValue, config, manifest, <<>>)
            ELSE Templated([via |-> "processor",
                            command |-> processors[file_ext],
                            file |-> chapter.file])
        ELSE IF file_ext = <<".", "m", "d">> \/ file_ext = <<".", "t", "x", "t">>
                \/ file_ext = <<".", "m", "a", "r", "k", "d", "o", "w", "n">> THEN
            \* open() fails: print err; sys.exit(1)
            IF chapter.file \notin disk.files
            THEN Result(PyErr("SystemExit"), NoValue, config, manifest, <<>>)
            ELSE Templated([via |-> "markdown",
                            command |-> "smartyPants(markdown(text))",
                            file |-> chapter.file])
        ELSE IF file_ext = <<".", "x", "h", "t", "m", "l">> THEN
            IF chapter.file \notin disk.files
            THEN Result(PyErr("IOError"), NoValue, config, manifest, <<>>)
            ELSE Result(NoErr, [verbatim |-> chapter.file], config, manifest,
                        <<>>)
        ELSE Result(BinderError(WEIRD_FILE), NoValue, config, manifest, <<>>)

(***************************************************************************)
(* The archive file at <outfile>.epub: whether it exists, the members      *)
(* written to it in order, each with its compression, and whether close()  *)
(* was called on it.                                                       *)
(***************************************************************************)
ZIP_STORED == 0
ZIP_DEFLATED == 8

NoArchive == [exists |-> FALSE, members |-> <<>>, closed |-> FALSE]

Member(name, compress_type) == [name |-> name, compress_type |-> compress_type]

\* the mimetype member written with the archive's default compression
MimetypeMember_deflated == Member(<<"m", "i", "m", "e", "t", "y", "p", "e">>, ZIP_DEFLATED)

\* epub.writestr('mimetype', 'application/epub+zip', zipfile.ZIP_STORED)
MimetypeMember == Member(<<"m", "i", "m", "e", "t", "y", "p", "e">>, ZIP_STORED)

\* os.path.normpath on an archive name: repeated separators collapse
\* (ZipFile.write normalises the name it is given, writestr does not)
RECURSIVE NormPath(_)
NormPath(p) ==
    IF Len(p) < 2 THEN p
    ELSE IF p[1] = "/" /\ p[2] = "/" THEN NormPath(Tail(p))
    ELSE <<p[1]>> \o NormPath(Tail(p))

\* the state one make_book run carries from statement to statement
RunState(epub, r) == [epub |-> epub, r |-> r]

\* epub.writestr(name, <the value of call>) and epub.write(filename, name):
\* the member is added unless an exception was raised before or by the call
WriteMember(run, name, call) ==
    IF run.r.err # NoErr THEN run
    ELSE IF call.err # NoErr
    THEN RunState(run.epub,
                  [call EXCEPT !.rendered = run.r.rendered \o call.rendered])
    ELSE RunState([run.epub EXCEPT
                      !.members = Append(@, Member(name, ZIP_DEFLATED))],
                  [call EXCEPT !.rendered = run.r.rendered \o call.rendered])

\* the chapter loop of make_book
RECURSIVE ChapterLoop(_, _, _, _)
ChapterLoop(run, i, env, disk) ==
    IF run.r.err # NoErr \/ i > Len(run.r.manifest.book) THEN run
    ELSE LET chapter == run.r.manifest.book[i]
         IN  ChapterLoop(
                 WriteMember(run,
                     <<"O", "E", "B", "P", "S", "/">> \o make_id(chapter.file) \o <<".", "x", "h", "t", "m", "l">>,
                     generate_chapter(chapter, run.r.manifest, run.r.config,
                                      env, disk)),
                 i + 1, env, disk)

\* a file copied or read from disk into the archive
FileRead(run, present) ==
    Result(IF present THEN NoErr ELSE PyErr("OSError"), NoValue,
           run.r.config, run.r.manifest, <<>>)

RECURSIVE AssetFiles(_, _, _, _)
AssetFiles(run, dir_name, files, i) ==
    IF i > Len(files) THEN run
    ELSE AssetFiles(WriteMember(run,
                        <<"O", "E", "B", "P", "S", "/">> \o dir_name \o <<"/">> \o files[i],
                        FileRead(run, TRUE)),
                    dir_name, files, i + 1)

\* the asset loop of make_book
RECURSIVE AssetDirLoop(_, _, _)
AssetDirLoop(run, disk, d) ==
    IF d > Len(AssetDirs) THEN run
    ELSE AssetDirLoop(IF disk.dirs[d].readable
                      THEN AssetFiles(run, AssetDirs[d], disk.dirs[d].files, 1)
                      ELSE run,
                      disk, d + 1)

\* zipfile.ZipFile(outfile + '.epub', 'w', zipfile.ZIP_DEFLATED) with outfile
\* defaulting to source_dir, and the mimetype member written first
OpenArchive(source_dir, manifest, config, disk, epub) ==
    LET start == Result(NoErr, NoValue, config, manifest, <<>>)
    IN  IF source_dir = "None"
        THEN RunState(epub, [start EXCEPT !.err = PyErr("TypeError")])
        ELSE IF ~disk.writable
        THEN RunState(epub, [start EXCEPT !.err = PyErr("IOError")])
        ELSE RunState([exists |-> TRUE, members |-> <<MimetypeMember>>,
                       closed |-> FALSE],
                      start)

\* epub.write(self.config['static'] + '/container.xml', ...)
AddContainer(run, disk) ==
    WriteMember(run, <<"M", "E", "T", "A", "-", "I", "N", "F", "/", "c", "o", "n", "t", "a", "i", "n", "e", "r", ".", "x", "m", "l">>, FileRead(run, disk.static))

\* epub.writestr('OEBPS/content.opf', self.generate_opf())
AddOpf(run, env, disk, new_uuid) ==
    IF run.r.err # NoErr THEN run
    ELSE WriteMember(run, <<"O", "E", "B", "P", "S", "/", "c", "o", "n", "t", "e", "n", "t", ".", "o", "p", "f">>,
                     generate_opf(run.r.manifest, run.r.config, env, disk,
                                  new_uuid))

\* epub.writestr('OEBPS/toc.ncx', self.generate_toc())
AddToc(run, env, disk) ==
    IF run.r.err # NoErr THEN run
    ELSE WriteMember(run, <<"O", "E", "B", "P", "S", "/", "t", "o", "c", ".", "n", "c", "x">>,
                     generate_toc(run.r.manifest, run.r.config, env, disk))

\* if self.manifest.has_key('cover'): epub.writestr('OEBPS/cover.xhtml', ...)
AddCover(run, env, disk) ==
    IF run.r.err = NoErr /\ has_key(run.r.manifest, "cover")
    THEN WriteMember(run, <<"O", "E", "B", "P", "S", "/", "c", "o", "v", "e", "r", ".", "x", "h", "t", "m", "l">>,
                     generate_cover(run.r.manifest, run.r.config, env, disk))
    ELSE run

\* if self.manifest.has_key('stylesheet'): the stylesheet is copied from the
\* style library unless the source directory has it
AddStylesheet(run, disk) ==
    IF /\ run.r.err = NoErr
       /\ has_key(run.r.manifest, "stylesheet")
       /\ ~StylesheetInSource(disk, run.r.manifest.stylesheet)
    THEN WriteMember(run,
             NormPath(<<"O", "E", "B", "P", "S", "/">> \o <<"/">> \o styles \o <<"/">>
                      \o run.r.manifest.stylesheet),
             FileRead(run, run.r.manifest.stylesheet \in disk.style_lib))
    ELSE run

AddAssets(run, disk) ==
    IF run.r.err = NoErr THEN AssetDirLoop(run, disk, 1) ELSE run

\* epub.close(), reached when nothing was raised
CloseArchive(run) ==
    IF run.r.err = NoErr
    THEN RunState([run.epub EXCEPT !.closed = TRUE],
                  [run.r EXCEPT !.value = NoValue])
    ELSE run

\* Binder.make_book(outfile=None): the archive and the call's result
make_book(source_dir, manifest, config, env, disk, epub, new_uuid) ==
    CloseArchive(
      AddAssets(
        AddStylesheet(
          AddCover(
            ChapterLoop(
              AddToc(
                AddOpf(
                  AddContainer(
                    OpenArchive(source_dir, manifest, config, disk, epub),
                    disk),
                  env, disk, new_uuid),
                env, disk),
              1, env, disk),
            env, disk),
          disk),
        disk))

\* Binder.load_manifest: the exception it ends with and the manifest it leaves
load_manifest(source_dir, manifest, disk) ==
    IF source_dir = "None"
    THEN [err |-> BinderError(NO_SOURCE_SET), manifest |-> manifest]
    ELSE IF disk.source = "missing"
    THEN [err |-> BinderError(NO_FILE), manifest |-> manifest]
    ELSE IF disk.source # "dir"
    THEN [err |-> BinderError(NOT_A_DIR), manifest |-> manifest]
    ELSE IF disk.yaml = "absent"
    THEN [err |-> BinderError(NO_MANIFEST), manifest |-> manifest]
    ELSE IF disk.yaml = "malformed"
    THEN [err |-> PyErr("YAMLError"), manifest |-> manifest]
    ELSE IF disk.yaml = "empty"
    THEN [err |-> NoErr, manifest |-> None]
    ELSE [err |-> NoErr, manifest |-> disk.content]


(***************************************************************************)
(* The inputs the model draws from: chapters, manifests, disks, configs    *)
(***************************************************************************)
F_ab_MD == <<"A", "b", ".", "M", "D">>
F_c_xhtml == <<"c", ".", "x", "h", "t", "m", "l">>
F_p_txt == <<" ", "p", " ", ".", "t", "x", "t">>
F_n_doc == <<"n", ".", "d", "o", "c">>

Chapters ==
    { [file |-> F_ab_MD, title |-> "One"],
      [file |-> F_c_xhtml],
      [file |-> F_p_txt, title |-> "Three", linear |-> FALSE],
      [file |-> F_n_doc, title |-> "Four", linear |-> TRUE] }

ChapterFiles == {c.file : c \in Chapters}

Books == UNION {[1..n -> Chapters] : n \in 0..MaxBook}

ISBN_plain == <<"0", "-", "1", "3", "-", "4", "6", "8", "5", "9", "9", "-", "7">>
ISBN_urn == <<"u", "r", "n", ":", "i", "s", "b", "n", ":", "0", " ", "1", "3">>
UUID_given == <<"u", "r", "n", ":", "u", "u", "i", "d", ":", "9">>
UUIDs == {<<"u", "r", "n", ":", "u", "u", "i", "d", ":", "1">>, <<"u", "r", "n", ":", "u", "u", "i", "d", ":", "2">>}

Date_March_2020 == <<"M", "a", "r", "c", "h", " ", "2", "0", "2", "0">>
Date_2020_13 == <<"2", "0", "2", "0", "-", "1", "3">>
Date_2020_3 == <<"2", "0", "2", "0", "-", "3">>

Cover_png == <<"C", "o", "v", "e", "r", ".", "p", "n", "g">>
cover_PNG == <<"c", "o", "v", "e", "r", ".", "P", "N", "G">>
Art_JPG == <<" ", "A", "r", "t", ".", "J", "P", "G">>
My_css == <<"m", "y", ".", "c", "s", "s">>

\* the manifest without its book: metadata, and cover and stylesheet if any
Heads ==
    { [metadata |-> << <<"title", <<"T">>>>, <<"author", <<"D", "o", "e", ",", " ", "J", "a", "n", "e">>>>,
                       <<"isbn", ISBN_plain>>, <<"date", Date_March_2020>> >>],
      [metadata |-> << <<"title", <<"T">>>>, <<"date", Date_2020_13>>,
                       <<"author", <<"D", "o", "e", ",", " ", "J", "a", "n", "e">>>> >>,
       cover |-> Cover_png],
      [metadata |-> << <<"uuid", UUID_given>>, <<"title", <<"U">>>>,
                       <<"language", <<"f", "r">>>>, <<"date", Date_2020_3>> >>,
       stylesheet |-> My_css],
      [metadata |-> << <<"author", <<"J", "a", "n", "e", " ", "D", "o", "e">>>>, <<"isbn", ISBN_urn>>,
                       <<"title", <<"T">>>> >>,
       cover |-> Art_JPG, stylesheet |-> My_css],
      [metadata |-> << <<"title", <<"U">>>>, <<"author", <<"P", "o", "e", ",", " ", "E", "d">>>> >>,
       processors |-> (<<".", "x", "h", "t", "m", "l">> :> "tidy {}") @@ (<<".", "m", "d">> :> "multimarkdown {}")] }

WithBook(head, book) ==
    [k \in DOMAIN head \cup {"book"} |-> IF k = "book" THEN book ELSE head[k]]

Manifests == {WithBook(h, b) : h \in Heads, b \in Books}

\* one book to combine with every listing and every fault
CoreManifests ==
    {WithBook(h, <<[file |-> F_ab_MD, title |-> "One"], [file |-> F_c_xhtml]>>) :
        h \in Heads}

NoDir == [readable |-> FALSE, files |-> <<>>]
Dir(files) == [readable |-> TRUE, files |-> files]

NoListing == <<NoDir, NoDir, NoDir>>

MainListing == <<Dir(<<Cover_png, Art_JPG>>), Dir(<<My_css>>), NoDir>>

Listings ==
    { NoListing,
      MainListing,
      <<NoDir, Dir(<<DefaultStylesheet>>),
        Dir(<<<<"x", ".", "j", "s">>, <<"R", "E", "A", "D", "M", "E">>>>)>>,
      <<Dir(<<Cover_png, cover_PNG>>), NoDir, NoDir>> }

AllTemplates == {"content.opf", "toc.ncx", "chapter.xhtml", "cover.xhtml"}

\* a source directory with everything in place
Healthy(content, dirs) ==
    [source |-> "dir", yaml |-> "ok", content |-> content,
     files |-> ChapterFiles, dirs |-> dirs, templates |-> AllTemplates,
     static |-> TRUE, style_lib |-> {My_css, DefaultStylesheet},
     proc_ok |-> TRUE, writable |-> TRUE]

\* the same with one thing broken
Faulty(content, dirs) ==
    LET h == Healthy(content, dirs)
    IN  { [h EXCEPT !.static = FALSE],
          [h EXCEPT !.templates = {}],
          [h EXCEPT !.templates = AllTemplates \ {"chapter.xhtml"}],
          [h EXCEPT !.proc_ok = FALSE],
          [h EXCEPT !.files = {}],
          [h EXCEPT !.style_lib = {}],
          [h EXCEPT !.writable = FALSE] }

EmptyManifest == [metadata |-> <<>>, book |-> <<>>]

\* a source path that is no usable source directory
Unusable(source, yaml) ==
    [Healthy(EmptyManifest, NoListing)
        EXCEPT !.source = source, !.yaml = yaml]

\* Binder.config as the class defines it
ClassConfig ==
    [static |-> "/usr/local/lib/bookbind/static",
     templates |-> "/usr/local/lib/bookbind/templates",
     styles |-> "/usr/local/lib/bookbind/styles"]

\* a configuration file that names external processors
LoadedConfig ==
    [static |-> "/opt/bookbind/static",
     templates |-> "/opt/bookbind/templates",
     styles |-> "/opt/bookbind/styles",
     processors |-> (<<".", "m", "d">> :> "pandoc {}") @@ (<<".", "d", "o", "c">> :> "antiword {}")]

World(source_dir, disk, env, config) ==
    [source_dir |-> source_dir, disk |-> disk, env |-> env, config |-> config]

\* the Binders the model starts from: Binder(source_dir) has no template
\* environment, Binder(source_dir, config) has one, and its config is the
\* class default unless the configuration file could be loaded
Worlds ==
    {World("None", Unusable("missing", "absent"), e, ClassConfig) :
        e \in BOOLEAN}
    \cup {World("/missing", Unusable("missing", "absent"), e, ClassConfig) :
        e \in BOOLEAN}
    \cup {World("/file", Unusable("file", "absent"), e, ClassConfig) :
        e \in BOOLEAN}
    \cup {World("/book", Unusable("dir", y), TRUE, ClassConfig) :
        y \in {"absent", "malformed", "empty"}}
    \cup {World("/book", Healthy(m, MainListing), TRUE, c) :
        m \in Manifests, c \in {ClassConfig, LoadedConfig}}
    \cup {World("/book", Healthy(m, l), TRUE, c) :
        m \in CoreManifests, l \in Listings, c \in {ClassConfig, LoadedConfig}}
    \cup {World("/book", d, TRUE, c) :
        d \in UNION {Faulty(m, MainListing) : m \in CoreManifests},
        c \in {ClassConfig, LoadedConfig}}
    \cup {World("/book", Healthy(m, MainListing), FALSE, ClassConfig) :
        m \in CoreManifests}

(***************************************************************************)
(* The state: one Binder, the disk it works on, the archive it writes,     *)
(* the last call made, and what the command line did.  config is what the  *)
(* Binder's self.config evaluates to: the dictionary load_config assigned  *)
(* to the instance (own_config), or else the dictionary Binder.config of   *)
(* the class, which class_config holds.                                    *)
(***************************************************************************)
VARIABLES source_dir, disk, manifest, config, env, epub, last, cli,
          class_config, own_config

vars == <<source_dir, disk, manifest, config, env, epub, last, cli,
          class_config, own_config>>

\* the last call: its name, its argument if any, and its result
Call(op, arg, r) ==
    [op |-> op, arg |-> arg, err |-> r.err, value |-> r.value,
     rendered |-> r.rendered]

NotRun == [exit |-> -1, printed |-> "none", code |-> 0]

Init ==
    \E w \in Worlds :
        /\ source_dir = w.source_dir
        /\ disk = w.disk
        /\ env = w.env
        /\ config = w.config
        /\ manifest = None
        /\ epub = NoArchive
        /\ last = Call("__init__", <<>>,
                       Result(NoErr, NoValue, w.config, None, <<>>))
        /\ cli = NotRun
        /\ class_config = ClassConfig
        /\ own_config = (w.config # ClassConfig)

\* Binder.config after self.config[key] = value left self.config as c: the
\* assignment writes into the class's dictionary unless the instance has
\* its own
Shared(c) == IF own_config THEN class_config ELSE c

\* the values uuid.uuid4().urn can take where generate_metadata calls it
NewUuids(m) ==
    IF m # None /\ ~md_has_key(m.metadata, "uuid")
       /\ ~md_has_key(m.metadata, "isbn")
    THEN UUIDs
    ELSE {CHOOSE u \in UUIDs : TRUE}

\* a call on the Binder, made by a program that uses the class: what it
\* returns, and the manifest and config it leaves
Returns(op, arg, r) ==
    /\ cli = NotRun
    /\ last' = Call(op, arg, r)
    /\ manifest' = r.manifest
    /\ config' = r.config
    /\ class_config' = Shared(r.config)
    /\ UNCHANGED <<source_dir, disk, env, epub, cli, own_config>>

LoadManifest ==
    LET l == load_manifest(source_dir, manifest, disk)
    IN  /\ cli = NotRun
        /\ manifest' = l.manifest
        /\ last' = Call("load_manifest", <<>>,
                        Result(l.err, NoValue, config, l.manifest, <<>>))
        /\ UNCHANGED <<source_dir, disk, config, env, epub, cli,
                       class_config, own_config>>

GenerateOpf ==
    \E new_uuid \in NewUuids(manifest) :
        Returns("generate_opf", <<>>,
                generate_opf(manifest, config, env, disk, new_uuid))

GenerateMetadata ==
    \E new_uuid \in NewUuids(manifest) :
        Returns("generate_metadata", <<>>,
                generate_metadata(manifest, config, new_uuid))

GenerateManifestItems ==
    Returns("generate_manifest_items", <<>>,
            generate_manifest_items(manifest, config, disk))

GenerateSpineItems ==
    Returns("generate_spine_items", <<>>,
            generate_spine_items(manifest, config))

GenerateToc ==
    Returns("generate_toc", <<>>, generate_toc(manifest, config, env, disk))

GenerateNavmap ==
    Returns("generate_navmap", <<>>, generate_navmap(manifest, config))

GenerateChapter ==
    \E chapter \in Chapters :
        Returns("generate_chapter", <<chapter>>,
                generate_chapter(chapter, manifest, config, env, disk))

GenerateCover ==
    Returns("generate_cover", <<>>,
            generate_cover(manifest, config, env, disk))

\* the state a make_book run leaves
Ran(op, run) ==
    /\ epub' = run.epub
    /\ manifest' = run.r.manifest
    /\ config' = run.r.config
    /\ class_config' = Shared(run.r.config)
    /\ last' = Call(op, <<>>, run.r)

MakeBook ==
    /\ cli = NotRun
    /\ \E new_uuid \in NewUuids(manifest) :
           Ran("make_book",
               make_book(source_dir, manifest, config, env, disk, epub,
                         new_uuid))
    /\ UNCHANGED <<source_dir, disk, env, cli, own_config>>

\* what the command line does with the exception a run ends with:
\* a BinderError is printed as '[Err <code>] <message>' and exits 1;
\* sys.exit(1) exits 1; any other exception ends in a traceback
CliOutcome(err) ==
    IF err = NoErr THEN [exit |-> 0, printed |-> "none", code |-> 0]
    ELSE IF err.kind = "BinderError"
    THEN [exit |-> 1, printed |-> "[Err <code>] <message>", code |-> err.code]
    ELSE IF err.kind = "SystemExit"
    THEN [exit |-> 1, printed |-> "message", code |-> 0]
    ELSE [exit |-> 1, printed |-> "traceback", code |-> 0]

\* the try block of __main__ once load_manifest has ended with l
MainLoaded(l) ==
    IF l.err # NoErr
    THEN /\ cli' = CliOutcome(l.err)
         /\ manifest' = l.manifest
         /\ last' = Call("__main__", <<>>,
                         Result(l.err, NoValue, config, l.manifest, <<>>))
         /\ UNCHANGED <<config, epub, class_config>>
    ELSE \E new_uuid \in NewUuids(l.manifest) :
             /\ Ran("__main__",
                    make_book(source_dir, l.manifest, config, env, disk, epub,
                              new_uuid))
             /\ cli' = CliOutcome(last'.err)

\* the __main__ block: Binder(source_dir, '~/.bookbindrc'), load_manifest(),
\* make_book(); without an argument it prints the usage and exits 0
Main ==
    /\ last.op = "__init__"
    /\ env
    /\ IF source_dir = "None"
       THEN /\ cli' = [exit |-> 0, printed |-> "usage", code |-> 0]
            /\ last' = [last EXCEPT !.op = "__main__"]
            /\ UNCHANGED <<manifest, config, epub, class_config>>
       ELSE MainLoaded(load_manifest(source_dir, manifest, disk))
    /\ UNCHANGED <<source_dir, disk, env, own_config>>

\* a second Binder in the same process, B = Binder(dir, file) where the file
\* could not be loaded: B has a template environment and no config of its
\* own, so B.config is the class's dictionary; B.manifest is assigned
\* directly and its templates are all in place
ManifestB ==
    [metadata |-> << <<"title", <<"B">>>>, <<"author", <<"B", "e", "e">>>> >>,
     book |-> <<>>, cover |-> Cover_png]

DiskB == Healthy(ManifestB, NoListing)

\* a call on B that reads B.config and writes nothing
ReturnsB(op, r) ==
    /\ cli = NotRun
    /\ last' = Call(op, <<>>, r)
    /\ UNCHANGED <<source_dir, disk, manifest, config, env, epub, cli,
                   class_config, own_config>>

GenerateTocB ==
    ReturnsB("B.generate_toc",
             generate_toc(ManifestB, class_config, TRUE, DiskB))

GenerateCoverB ==
    ReturnsB("B.generate_cover",
             generate_cover(ManifestB, class_config, TRUE, DiskB))

Next ==
    \/ LoadManifest
    \/ GenerateOpf
    \/ GenerateMetadata
    \/ GenerateManifestItems
    \/ GenerateSpineItems
    \/ GenerateToc
    \/ GenerateNavmap
    \/ GenerateChapter
    \/ GenerateCover
    \/ MakeBook
    \/ Main
    \/ GenerateTocB
    \/ GenerateCoverB

Spec == Init /\ [][Next]_vars


(***************************************************************************)
(* Properties                                                              *)
(***************************************************************************)
Name_mimetype == <<"m", "i", "m", "e", "t", "y", "p", "e">>

\* C1: whenever the archive file exists, after a complete run or a run that
\* failed on the way, its first member is named mimetype and is stored
\* (ZIP_STORED), and no later member is named mimetype or stored.
C1_MimetypeFirstStored ==
    epub.exists =>
        /\ Len(epub.members) >= 1
        /\ epub.members[1].name = Name_mimetype
        /\ epub.members[1].compress_type = ZIP_STORED
        /\ \A i \in 2..Len(epub.members) :
               /\ epub.members[i].name # Name_mimetype
               /\ epub.members[i].compress_type # ZIP_STORED

\* a run whose manifest has a cover, a stylesheet and two chapters closed the
\* archive
C1_Witness_Complete ==
    /\ last.op = "make_book"
    /\ epub.closed
    /\ has_key(manifest, "cover")
    /\ has_key(manifest, "stylesheet")
    /\ Len(manifest.book) >= 2
    /\ Len(epub.members) >= 8

\* C2: a make_book run that ends with an exception leaves no archive file,
\* and one that returns leaves a closed archive.
C2_PackageOrNothing ==
    last.op \in {"make_book", "__main__"} =>
        IF last.err = NoErr
        THEN cli.printed = "usage" \/ (epub.exists /\ epub.closed)
        ELSE ~epub.exists

ManifestOps ==
    {"generate_opf", "generate_metadata", "generate_manifest_items",
     "generate_spine_items", "generate_toc", "generate_navmap",
     "generate_chapter", "generate_cover", "make_book"}

\* C3: a manifest-dependent operation called while the manifest is unset ends
\* with BinderError NO_MANIFEST_SET and has no other effect: config is as it
\* was, no template was rendered, and the archive file is as it was (none on
\* a fresh Binder).
C3_ManifestRequiredFirst ==
    [][(manifest = None /\ last'.op \in ManifestOps) =>
           /\ last'.err = BinderError(NO_MANIFEST_SET)
           /\ last'.rendered = <<>>
           /\ config' = config
           /\ epub' = epub
           /\ manifest' = None]_vars

\* C4: generate_spine_items returns one reference per chapter of book, in
\* book order, each the chapter's make_id, after the single reference cover
\* when the manifest declares a cover, and nothing else.
C4_SpineIsBookOrder ==
    (last.op = "generate_spine_items" /\ last.err = NoErr) =>
        LET off == IF has_key(manifest, "cover") THEN 1 ELSE 0
        IN  /\ Len(last.value) = off + Len(manifest.book)
            /\ off = 1 => last.value[1].idref = <<"c", "o", "v", "e", "r">>
            /\ \A i \in 1..Len(manifest.book) :
                   last.value[off + i].idref = make_id(manifest.book[i].file)

\* generate_spine_items returned for a book with a cover, an untitled chapter
\* and a chapter with linear false
C4_Witness_CoverUntitledNonLinear ==
    /\ last.op = "generate_spine_items"
    /\ last.err = NoErr
    /\ has_key(manifest, "cover")
    /\ \E i \in 1..Len(manifest.book) : ~has_key(manifest.book[i], "title")
    /\ \E i \in 1..Len(manifest.book) :
           Get(manifest.book[i], "linear", TRUE) = FALSE
    /\ Len(last.value) = 3

\* the chapters a navigation entry is claimed for
Titled(c) ==
    "title" \in DOMAIN c /\ ("linear" \notin DOMAIN c \/ c.linear # FALSE)

\* s is a subsequence of t
RECURSIVE IsSubseq(_, _)
IsSubseq(s, t) ==
    IF s = <<>> THEN TRUE
    ELSE IF t = <<>> THEN FALSE
    ELSE IF Head(s) = Head(t) THEN IsSubseq(Tail(s), Tail(t))
    ELSE IsSubseq(s, Tail(t))

\* C5: generate_navmap returns exactly the entries {file: <id>.xhtml, title,
\* id} of the chapters that have a title and whose linear is not false, in
\* book order, and their ids are a subsequence of the spine's chapter ids.
C5_NavmapFiltersInOrder ==
    (last.op = "generate_navmap" /\ last.err = NoErr) =>
        LET sel == SelectSeq(manifest.book, Titled)
            spine == SpineChapters(manifest.book)
        IN  /\ Len(last.value) = Len(sel)
            /\ \A i \in 1..Len(sel) :
                   /\ last.value[i].id = make_id(sel[i].file)
                   /\ last.value[i].file = make_id(sel[i].file) \o <<".", "x", "h", "t", "m", "l">>
                   /\ last.value[i].title = sel[i].title
            /\ IsSubseq([i \in 1..Len(last.value) |-> last.value[i].id],
                        [i \in 1..Len(spine) |-> spine[i].idref])

\* generate_navmap returned fewer entries than the book has chapters, and at
\* least one
C5_Witness_SomeExcluded ==
    /\ last.op = "generate_navmap"
    /\ last.err = NoErr
    /\ Len(last.value) >= 1
    /\ Len(last.value) < Len(manifest.book)
    /\ \E i \in 1..Len(manifest.book) :
           /\ has_key(manifest.book[i], "title")
           /\ Get(manifest.book[i], "linear", TRUE) = FALSE

\* C6: in the package document generate_opf builds, and for the two lists
\* computed from the manifest as it stands, every spine idref is the id of a
\* manifest item.
C6_SpineRefsHaveItems ==
    /\ (last.op = "generate_opf" /\ last.err = NoErr) =>
           \A i \in 1..Len(last.value.context.spine) :
               \E j \in 1..Len(last.value.context.manifest) :
                   last.value.context.manifest[j].id
                       = last.value.context.spine[i].idref
    /\ (last.op = "generate_spine_items" /\ last.err = NoErr) =>
           \A i \in 1..Len(last.value) :
               \E j \in 1..Len(generate_manifest_items(manifest, config,
                                                       disk).value) :
                   generate_manifest_items(manifest, config, disk).value[j].id
                       = last.value[i].idref

\* generate_opf rendered the package document of a manifest with a cover and
\* two chapters
C6_Witness_OpfWithCover ==
    /\ last.op = "generate_opf"
    /\ last.err = NoErr
    /\ has_key(manifest, "cover")
    /\ Len(manifest.book) >= 2
    /\ Len(last.value.context.spine) >= 3

\* C7: load_manifest sets the manifest or ends with exactly one BinderError:
\* NO_SOURCE_SET without a source directory, else NO_FILE when the path does
\* not exist, else NOT_A_DIR when it is no directory, else NO_MANIFEST when
\* manifest.yaml is absent or cannot be parsed; after a failure the manifest
\* is still unset.
C7_LoadManifestTaxonomy ==
    (last.op = "load_manifest" /\ disk.yaml # "empty") =>
        IF source_dir = "None"
        THEN last.err = BinderError(NO_SOURCE_SET) /\ manifest = None
        ELSE IF disk.source = "missing"
        THEN last.err = BinderError(NO_FILE) /\ manifest = None
        ELSE IF disk.source = "file"
        THEN last.err = BinderError(NOT_A_DIR) /\ manifest = None
        ELSE IF disk.yaml \in {"absent", "malformed"}
        THEN last.err = BinderError(NO_MANIFEST) /\ manifest = None
        ELSE last.err = NoErr /\ manifest = disk.content

MarkdownExts == {<<".", "m", "d">>, <<".", "m", "a", "r", "k", "d", "o", "w", "n">>, <<".", "t", "x", "t">>}

\* C8: generate_chapter takes its branch from the lower-cased extension of
\* chapter.file: the external processor when the processor table has the
\* extension, else Markdown for .md, .markdown and .txt, else the file as it
\* is for .xhtml, else BinderError WEIRD_FILE; the chapter template is
\* rendered in the first two branches and in no other.
C8_ChapterBranch ==
    (last.op = "generate_chapter" /\ manifest # None) =>
        LET chapter == last.arg[1]
            ext == Lower(SplitExt(chapter.file)[2])
            table == Get(config, "processors", <<>>)
            ok == last.err = NoErr
            templated == last.rendered = <<"chapter.xhtml">>
            can_render == env /\ "chapter.xhtml" \in disk.templates
        IN  IF ext \in DOMAIN table THEN
                /\ ok <=> (disk.proc_ok /\ can_render)
                /\ templated <=> ok
                /\ ok => /\ last.value.context.content.via = "processor"
                         /\ last.value.context.content.command = table[ext]
            ELSE IF ext \in MarkdownExts THEN
                /\ ok <=> (chapter.file \in disk.files /\ can_render)
                /\ templated <=> ok
                /\ ok => last.value.context.content.via = "markdown"
            ELSE IF ext = <<".", "x", "h", "t", "m", "l">> THEN
                /\ ok <=> chapter.file \in disk.files
                /\ last.rendered = <<>>
                /\ ok => last.value = [verbatim |-> chapter.file]
            ELSE /\ last.err = BinderError(WEIRD_FILE)
                 /\ last.rendered = <<>>

\* generate_chapter ran the external processor on a chapter whose extension
\* is written in upper case and is one of the Markdown extensions
C8_Witness_ProcessorBeforeMarkdown ==
    /\ last.op = "generate_chapter"
    /\ last.err = NoErr
    /\ SplitExt(last.arg[1].file)[2] = <<".", "M", "D">>
    /\ last.value.context.content.via = "processor"
    /\ last.rendered = <<"chapter.xhtml">>

\* the date values of the metadata
DateValues(md) == {md[i][2] : i \in {j \in 1..Len(md) : md[j][1] = "date"}}

\* no accepted format parses the value
Unparseable(d) ==
    \A i \in 1..Len(date_formats) : ~strptime(d, date_formats[i]).ok

\* the first accepted format that parses the value
FirstFormat(d) ==
    CHOOSE i \in 1..Len(date_formats) :
        /\ strptime(d, date_formats[i]).ok
        /\ \A j \in 1..(i - 1) : ~strptime(d, date_formats[j]).ok

MetadataOps == {"generate_metadata", "generate_opf", "make_book", "__main__"}

\* C9: with a date that no accepted format parses, generate_metadata (alone
\* or within a run) ends with a BinderError that carries a code, which the
\* command line prints as [Err <code>] <message>; a date that parses is
\* emitted as YYYY-MM by the first format that parses it.
C9_DateErrorInTaxonomy ==
    /\ (/\ last.op \in MetadataOps
        /\ manifest # None
        /\ disk.static /\ disk.writable
        /\ \E d \in DateValues(manifest.metadata) : Unparseable(d)) =>
           /\ last.err.kind = "BinderError"
           /\ last.err.code >= NO_FILE
           /\ last.op = "__main__" => cli.printed = "[Err <code>] <message>"
    /\ (last.op = "generate_metadata" /\ last.err = NoErr) =>
           \A d \in DateValues(manifest.metadata) :
               \E i \in 1..Len(last.value) :
                   /\ last.value[i].element = "date"
                   /\ last.value[i].value
                          = strftime(strptime(d, date_formats[FirstFormat(d)]))

\* the isbn values of the metadata
IsbnValues(md) == {md[i][2] : i \in {j \in 1..Len(md) : md[j][1] = "isbn"}}

\* the identifier value claimed for an isbn
IsbnUrn(v) ==
    IF StartsWith(v, <<"u", "r", "n", ":">>)
    THEN Translate(v, {"-", " "})
    ELSE <<"u", "r", "n", ":", "i", "s", "b", "n", ":">> \o Translate(v, {"-", " "})

\* C10: for an isbn in the metadata, generate_metadata emits an identifier
\* record with id=bookid and scheme ISBN whose value is the isbn without
\* hyphens and spaces, prefixed with urn:isbn: unless it is a URN already,
\* and keeps that value as the uid.
C10_IsbnIdentifier ==
    (last.op = "generate_metadata" /\ last.err = NoErr) =>
        \A v \in IsbnValues(manifest.metadata) :
            /\ \E i \in 1..Len(last.value) :
                   /\ last.value[i].element = "identifier"
                   /\ last.value[i].attributes
                          = << <<"id", "bookid">>, <<"opf:scheme", "ISBN">> >>
                   /\ last.value[i].value = IsbnUrn(v)
            /\ config.uid = IsbnUrn(v)


\* the identifier records among the records generate_metadata returned
Identifiers(items) ==
    {i \in 1..Len(items) : items[i].element = "identifier"}

\* the metadata mapping has the key with this value
md_is(md, k, v) == \E i \in 1..Len(md) : md[i] = <<k, v>>

\* C11: when the metadata has neither uuid nor isbn, generate_metadata
\* returns exactly one identifier record, with id=bookid and scheme UUID and
\* a new UUID URN as its value, stores the value under uuid in the metadata
\* mapping, and adds language "en" when language is absent; when uuid or
\* isbn is present it adds no uuid.
C11_SynthesizedUuid ==
    [][(/\ manifest # None
        /\ last'.op = "generate_metadata"
        /\ last'.err = NoErr) =>
           IF ~md_has_key(manifest.metadata, "uuid")
              /\ ~md_has_key(manifest.metadata, "isbn")
           THEN /\ Cardinality(Identifiers(last'.value)) = 1
                /\ \A i \in Identifiers(last'.value) :
                       /\ last'.value[i].attributes
                              = << <<"id", "bookid">>, <<"opf:scheme", "UUID">> >>
                       /\ last'.value[i].value \in UUIDs
                       /\ md_is(manifest'.metadata, "uuid", last'.value[i].value)
                /\ md_has_key(manifest.metadata, "language")
                   \/ md_is(manifest'.metadata, "language", <<"e", "n">>)
           ELSE md_has_key(manifest'.metadata, "uuid")
                    = md_has_key(manifest.metadata, "uuid")]_vars


\* the archive has a member with this name
HasMember(name) ==
    \E i \in 1..Len(epub.members) : epub.members[i].name = name

\* C12: after a make_book run that returned, the effective stylesheet
\* (manifest stylesheet, else default.css) is in the archive as
\* OEBPS/styles/<name> when the source directory does not have it, and every
\* item add_assets emits for the manifest has a member OEBPS/<href>, with and
\* without a stylesheet in the manifest.
C12_StylesheetPackaged ==
    (last.op = "make_book" /\ last.err = NoErr) =>
        /\ ~StylesheetInSource(disk, Get(manifest, "stylesheet",
                                         DefaultStylesheet)) =>
               HasMember(<<"O", "E", "B", "P", "S", "/", "s", "t", "y", "l", "e", "s", "/">>
                         \o Get(manifest, "stylesheet", DefaultStylesheet))
        /\ \A i \in 1..Len(add_assets(<<>>, manifest, disk)) :
               HasMember(<<"O", "E", "B", "P", "S", "/">> \o add_assets(<<>>, manifest, disk)[i].href)


\* the processor table the claim describes: the configuration's processors
\* with the manifest's processors laid over them
MergedProcessors ==
    [e \in DOMAIN Get(manifest, "processors", <<>>)
            \cup DOMAIN Get(config, "processors", <<>>) |->
        IF e \in DOMAIN Get(manifest, "processors", <<>>)
        THEN manifest.processors[e]
        ELSE config.processors[e]]

\* C13: generate_chapter consults the merge of the configuration's and the
\* manifest's processors: a chapter whose extension the merged table lists
\* goes through the external processor, with the manifest's command when
\* both levels list the extension.
C13_MergedProcessors ==
    (/\ last.op = "generate_chapter"
     /\ manifest # None
     /\ last.err = NoErr
     /\ ChapterExt(last.arg[1]) \in DOMAIN MergedProcessors) =>
        /\ "context" \in DOMAIN last.value
        /\ last.value.context.content.via = "processor"
        /\ last.value.context.content.command
               = MergedProcessors[ChapterExt(last.arg[1])]


\* what generate_metadata retains for the navigation document
Retained(c) == has_key(c, "title") /\ has_key(c, "author") /\ has_key(c, "uid")

\* C14: with a manifest loaded, generate_toc called before the metadata
\* mapping has retained title, author and uid ends with a BinderError of
\* the no-manifest class (NO_MANIFEST_SET); called after it, on a Binder
\* that can render, it renders the navigation document with the retained
\* title, author and uid; a make_book run renders content.opf before toc.ncx.
C14_TocAfterMetadata ==
    /\ (last.op = "generate_toc" /\ manifest # None) =>
           IF ~Retained(config)
           THEN last.err = BinderError(NO_MANIFEST_SET)
           ELSE (env /\ "toc.ncx" \in disk.templates) =>
                    /\ last.err = NoErr
                    /\ last.value.context.title = config.title
                    /\ last.value.context.author = config.author
                    /\ last.value.context.uid = config.uid
    /\ last.op \in {"make_book", "__main__"} =>
           \A i \in 1..Len(last.rendered) :
               last.rendered[i] = "toc.ncx" =>
                   \E j \in 1..(i - 1) : last.rendered[j] = "content.opf"


\* the cover hint records among the records generate_metadata returned
Hints(items) == {i \in 1..Len(items) : items[i].element = "meta"}

\* C15: with a cover in the manifest, generate_metadata returns exactly one
\* cover hint record, as the last record, and its content is the id of the
\* manifest item add_assets emits for the cover file in the images
\* directory; without a cover it returns no hint record.
C15_CoverHintMatchesAsset ==
    (last.op = "generate_metadata" /\ last.err = NoErr) =>
        IF has_key(manifest, "cover")
        THEN /\ Hints(last.value) = {Len(last.value)}
             /\ last.value[Len(last.value)].attributes
                    = << <<"name", "cover">>,
                         <<"content",
                           DirItems(images, <<manifest.cover>>)[1].id>> >>
        ELSE Hints(last.value) = {}


\* no two elements of the sequence are equal
Distinct(s) == \A i, j \in 1..Len(s) : i # j => s[i] # s[j]

\* C16: when the chapters of the manifest have pairwise distinct ids (and the
\* asset files are distinct files, which a directory listing guarantees),
\* generate_manifest_items returns no two items with the same id.
C16_UniqueItemIds ==
    (/\ last.op = "generate_manifest_items"
     /\ last.err = NoErr
     /\ Distinct([i \in 1..Len(manifest.book) |->
                     make_id(manifest.book[i].file)])
     /\ \A d \in 1..3 : Distinct(disk.dirs[d].files)) =>
        Distinct([i \in 1..Len(last.value) |-> last.value[i].id])


OpsB == {"B.generate_toc", "B.generate_cover"}

\* C17: no call leaves anything behind for another Binder: the dictionary
\* the class holds, which is the config of a Binder constructed separately,
\* stays as it is in every step, and a document rendered by generate_toc or
\* generate_cover on B never carries the title of A's manifest.
C17_NoStateAcrossBinders ==
    [][/\ class_config' = class_config
       /\ (last'.op \in OpsB /\ last'.err = NoErr /\ manifest # None) =>
              ~md_is(manifest.metadata, "title",
                     last'.value.context.title)]_vars


====
